---- MODULE Spec2Model ----
(***************************************************************************)
(* Portfolio API (src/main.py, src/schemas.py): a FastAPI application over *)
(* two MongoDB collections, "project" and "teammember".                    *)
(*                                                                         *)
(* The document store is shared by all requests.  Every call on the store  *)
(* (create_index, count_documents, insert, update_one, find, find_one,     *)
(* list_collection_names) is one atomic step; POST /api/seed is a sequence *)
(* of such steps with no lock or transaction around them, so seed calls    *)
(* interleave with each other and with the read endpoints at every store   *)
(* round trip.  The read endpoints make a single store call each and are   *)
(* one step.  A store call on an available store succeeds, except for an   *)
(* insert the unique slug index rejects.                                   *)
(*                                                                         *)
(* Text that a $regex filter reads is a sequence of characters; other      *)
(* strings are TLA+ strings.  An Optional value is the empty set (None) or *)
(* a singleton set.                                                        *)
(***************************************************************************)
EXTENDS Integers, Sequences, FiniteSets, TLC

\* Number of POST /api/seed calls issued by clients (each may overlap the others).
NumSeedCalls == 2

SeedCalls == 1..NumSeedCalls

VARIABLES
    dbAvail,        \* database.db is not None (fixed when the process starts)
    dbTouched,      \* some call on the store has been made
    indexes,        \* collections holding a unique index on "slug"
    project,        \* documents of collection "project", in insertion order
    teammember,     \* documents of collection "teammember", in insertion order
    pc,             \* pc[c]: position of seed call c inside seed_data
    i,              \* i[c]: index of the running for-loop of seed call c
    project_count,  \* project_count[c]: local variable of seed call c
    resp,           \* resp[c]: response of seed call c, None until it returns
    lastResp        \* request and response of the latest read endpoint call

vars == <<dbAvail, dbTouched, indexes, project, teammember, pc, i, project_count,
          resp, lastResp>>

store == <<indexes, project, teammember>>

-----------------------------------------------------------------------------
\* Optional values and text

None == {}

Some(x) == {x}

Get(o) == CHOOSE x \in o : TRUE

Range(s) == {s[k] : k \in 1..Len(s)}

\* AlexName is the text "Alex Johnson"
AlexName ==
    <<"A","l","e","x"," ","J","o","h","n","s","o","n">>

\* AlexRole is the text "Full-Stack Developer"
AlexRole ==
    <<"F","u","l","l","-","S","t","a","c","k"," ","D","e","v","e","l","o","p","e","r">>

\* AlexBio is the text "Engineer focused on building delightful, scalable web apps."
AlexBio ==
    <<"E","n","g","i","n","e","e","r"," ","f","o","c","u","s","e","d"," ","o","n"," ","b","u",
    "i","l","d","i","n","g"," ","d","e","l","i","g","h","t","f","u","l",","," ","s","c",
    "a","l","a","b","l","e"," ","w","e","b"," ","a","p","p","s",".">>

\* JamieName is the text "Jamie Lee"
JamieName ==
    <<"J","a","m","i","e"," ","L","e","e">>

\* JamieRole is the text "UI/UX Designer"
JamieRole ==
    <<"U","I","/","U","X"," ","D","e","s","i","g","n","e","r">>

\* JamieBio is the text "Designer blending aesthetics with usability for meaningful products."
JamieBio ==
    <<"D","e","s","i","g","n","e","r"," ","b","l","e","n","d","i","n","g"," ","a","e","s","t",
    "h","e","t","i","c","s"," ","w","i","t","h"," ","u","s","a","b","i","l","i","t","y",
    " ","f","o","r"," ","m","e","a","n","i","n","g","f","u","l"," ","p","r","o","d","u",
    "c","t","s",".">>

\* SamName is the text "Sam Patel"
SamName ==
    <<"S","a","m"," ","P","a","t","e","l">>

\* SamRole is the text "Backend Engineer"
SamRole ==
    <<"B","a","c","k","e","n","d"," ","E","n","g","i","n","e","e","r">>

\* SamBio is the text "API-first developer who loves clean architecture and performance."
SamBio ==
    <<"A","P","I","-","f","i","r","s","t"," ","d","e","v","e","l","o","p","e","r"," ","w","h",
    "o"," ","l","o","v","e","s"," ","c","l","e","a","n"," ","a","r","c","h","i","t","e",
    "c","t","u","r","e"," ","a","n","d"," ","p","e","r","f","o","r","m","a","n","c","e",
    ".">>

\* NovaTitle is the text "Nova Portfolio"
NovaTitle ==
    <<"N","o","v","a"," ","P","o","r","t","f","o","l","i","o">>

\* NovaDescription is the text "A modern, animated portfolio template with 3D hero and dynamic content."
NovaDescription ==
    <<"A"," ","m","o","d","e","r","n",","," ","a","n","i","m","a","t","e","d"," ","p","o","r",
    "t","f","o","l","i","o"," ","t","e","m","p","l","a","t","e"," ","w","i","t","h"," ",
    "3","D"," ","h","e","r","o"," ","a","n","d"," ","d","y","n","a","m","i","c"," ","c",
    "o","n","t","e","n","t",".">>

\* AtlasTitle is the text "API Atlas"
AtlasTitle ==
    <<"A","P","I"," ","A","t","l","a","s">>

\* AtlasDescription is the text "A developer dashboard for exploring public APIs with analytics."
AtlasDescription ==
    <<"A"," ","d","e","v","e","l","o","p","e","r"," ","d","a","s","h","b","o","a","r","d"," ",
    "f","o","r"," ","e","x","p","l","o","r","i","n","g"," ","p","u","b","l","i","c"," ",
    "A","P","I","s"," ","w","i","t","h"," ","a","n","a","l","y","t","i","c","s",".">>

\* QDashboard is the text "dashboard"
QDashboard ==
    <<"d","a","s","h","b","o","a","r","d">>

\* QNova is the text "NOVA"
QNova ==
    <<"N","O","V","A">>

\* QAtDotAs is the text "at.as"
QAtDotAs ==
    <<"a","t",".","a","s">>

\* QNoHit is the text "qq"
QNoHit ==
    <<"q","q">>

\* QDesigner is the text "designer"
QDesigner ==
    <<"d","e","s","i","g","n","e","r">>

UpperChars == <<"A","B","C","D","E","F","G","H","I","J","K","L","M","N","O","P","Q","R","S","T","U","V","W","X","Y","Z">>
LowerChars == <<"a","b","c","d","e","f","g","h","i","j","k","l","m","n","o","p","q","r","s","t","u","v","w","x","y","z">>

EmptyText == <<>>

\* Case folding of ASCII letters, as "$options": "i" compares
Fold(ch) ==
    IF \E k \in 1..Len(UpperChars) : UpperChars[k] = ch
    THEN LowerChars[CHOOSE k \in 1..Len(UpperChars) : UpperChars[k] = ch]
    ELSE ch

FoldText(text) == [k \in 1..Len(text) |-> Fold(text[k])]

\* {"$regex": pat, "$options": "i"} on a text field: an unanchored search.
\* Patterns are made of literal characters and ".", which matches any character.
RegexSearchI(pat, text) ==
    LET p == FoldText(pat)
        t == FoldText(text)
    IN  \E off \in 0..(Len(t) - Len(p)) :
            \A k \in 1..Len(p) : pat[k] = "." \/ p[k] = t[off + k]

-----------------------------------------------------------------------------
\* Sample entities built by seed_data

team ==
    << [name |-> AlexName, slug |-> "alex-johnson", role |-> AlexRole, bio |-> AlexBio,
        skills |-> <<"React", "FastAPI", "MongoDB", "Tailwind">>,
        projects |-> <<>>,
        socials |-> [linkedin |-> "https://www.linkedin.com/in/example",
                     github |-> "https://github.com/example",
                     website |-> "https://example.com"],
        email |-> Some("alex@example.com"),
        photo |-> Some("https://images.unsplash.com/photo-1607746882042-944635dfe10e?w=400&q=80")],
       [name |-> JamieName, slug |-> "jamie-lee", role |-> JamieRole, bio |-> JamieBio,
        skills |-> <<"Figma", "Design Systems", "Prototyping">>,
        projects |-> <<>>,
        socials |-> [linkedin |-> "https://www.linkedin.com/in/example2",
                     github |-> "https://github.com/example2"],
        email |-> Some("jamie@example.com"),
        photo |-> Some("https://images.unsplash.com/photo-1544723795-3fb6469f5b39?w=400&q=80")],
       [name |-> SamName, slug |-> "sam-patel", role |-> SamRole, bio |-> SamBio,
        skills |-> <<"Python", "FastAPI", "Databases">>,
        projects |-> <<>>,
        socials |-> [github |-> "https://github.com/example3"],
        email |-> Some("sam@example.com"),
        photo |-> Some("https://images.unsplash.com/photo-1541534401786-2077eed87a56?w=400&q=80")] >>

projects ==
    << [title |-> NovaTitle, slug |-> "nova-portfolio", description |-> NovaDescription,
        technologies |-> <<"React", "Tailwind", "Framer Motion">>,
        images |-> <<"https://images.unsplash.com/photo-1498050108023-c5249f4df085?w=1200&q=80">>,
        demo_url |-> Some("https://example.com/demo"),
        repo_url |-> Some("https://github.com/example/nova"),
        team_members |-> <<"alex-johnson", "jamie-lee">>,
        timeline |-> Some("2024"),
        category |-> Some("Web")],
       [title |-> AtlasTitle, slug |-> "api-atlas", description |-> AtlasDescription,
        technologies |-> <<"FastAPI", "MongoDB", "Vite">>,
        images |-> <<"https://images.unsplash.com/photo-1555066931-4365d14bab8c?w=1200&q=80">>,
        demo_url |-> Some("https://example.com/atlas"),
        repo_url |-> Some("https://github.com/example/atlas"),
        team_members |-> <<"alex-johnson", "sam-patel">>,
        timeline |-> Some("2023"),
        category |-> Some("Tool")] >>

-----------------------------------------------------------------------------
\* The document store

\* the availability check left out
DbIsNoneIgnored == FALSE

DbIsNone == ~dbAvail

\* The ObjectId the store gives an inserted document
NextId == Len(project) + Len(teammember) + 1

\* the index created without unique=True
UniqueViolationOff(name, docs, doc) == FALSE

\* create_index("slug", unique=True): an insert whose slug is already in the
\* collection raises DuplicateKeyError
UniqueViolation(name, docs, doc) ==
    /\ name \in indexes
    /\ \E k \in 1..Len(docs) : docs[k].slug = doc.slug

\* create_document(name, data): insert the model's fields as one new document
create_document(docs, data) == Append(docs, [id |-> NextId] @@ data)

\* update_one with an empty filter: the first document of the collection
update_one_unfiltered(docs, slug, slugs) ==
    IF Len(docs) > 0 THEN [docs EXCEPT ![1].projects = slugs] ELSE docs

\* update_one({"slug": slug}, {"$set": {"projects": slugs}}): the first match only
update_one(docs, slug, slugs) ==
    IF \E k \in 1..Len(docs) : docs[k].slug = slug
    THEN LET k == CHOOSE k \in 1..Len(docs) :
                    /\ docs[k].slug = slug
                    /\ \A j \in 1..(k - 1) : docs[j].slug # slug
         IN  [docs EXCEPT ![k].projects = slugs]
    ELSE docs

\* find_one with an empty filter: the first document of the collection
find_one_unfiltered(docs, slug) == IF Len(docs) > 0 THEN Some(docs[1]) ELSE None

\* find_one({"slug": slug}): the first match, None when there is none
find_one(docs, slug) ==
    IF \E k \in 1..Len(docs) : docs[k].slug = slug
    THEN Some(docs[CHOOSE k \in 1..Len(docs) :
                    /\ docs[k].slug = slug
                    /\ \A j \in 1..(k - 1) : docs[j].slug # slug])
    ELSE None

\* list_collection_names(): a collection exists once it holds an index or a document
list_collection_names ==
    SelectSeq(<<"project", "teammember">>,
              LAMBDA n : \/ n \in indexes
                         \/ n = "project" /\ Len(project) > 0
                         \/ n = "teammember" /\ Len(teammember) > 0)

\* A filter document: "or" is None or Some(<<fields, pattern>>), "in" is None or
\* Some(<<field, value>>), "eq" is None or Some(<<field, value>>).  A document
\* matches when every key that is present matches.
MatchesFilter(d, f) ==
    /\ f.or # None =>
          \E fld \in Range(Get(f.or)[1]) : RegexSearchI(Get(f.or)[2], d[fld])
    /\ f.in # None => Get(f.in)[2] \in Range(d[Get(f.in)[1]])
    /\ f.eq # None => d[Get(f.eq)[1]] = Some(Get(f.eq)[2])

\* get_documents(name, filter_dict): the matching documents in store order
get_documents(docs, f) == SelectSeq(docs, LAMBDA d : MatchesFilter(d, f))

-----------------------------------------------------------------------------
\* POST /api/seed

Reply(status, message) == Some([status |-> status, message |-> message])

DbNotAvailable == Reply(500, "Database not available")
AlreadyPresent == Reply(200, "Data already present")
SeededSampleData == Reply(200, "Seeded sample data")
\* an exception no handler catches becomes the framework's 500 response
InternalServerError == Reply(500, "Internal Server Error")

\* the backfill without its membership test
BackfillSlugsAll(m, ps) == [k \in 1..Len(ps) |-> ps[k].slug]

\* the inner loop of the backfill: slugs of the projects that list member m
BackfillSlugs(m, ps) ==
    LET F[k \in 0..Len(ps)] ==
            IF k = 0 THEN <<>>
            ELSE IF m.slug \in Range(ps[k].team_members)
                 THEN Append(F[k - 1], ps[k].slug)
                 ELSE F[k - 1]
    IN  F[Len(ps)]

\* the emptiness test left out
DataPresentNever(pcount, mcount) == FALSE

\* the emptiness test with "and" for "or"
DataPresentBoth(pcount, mcount) == pcount > 0 /\ mcount > 0

\* the emptiness test of seed_data
DataPresent(pcount, mcount) == pcount > 0 \/ mcount > 0

Return(c, r) ==
    /\ pc' = [pc EXCEPT ![c] = "done"]
    /\ resp' = [resp EXCEPT ![c] = r]

Goto(c, label) ==
    /\ pc' = [pc EXCEPT ![c] = label]
    /\ UNCHANGED resp

\* the availability check, then create_index on "project"
SeedStart(c) ==
    /\ pc[c] = "idle"
    /\ IF DbIsNone
       THEN /\ Return(c, DbNotAvailable)
            /\ UNCHANGED <<dbTouched, indexes>>
       ELSE /\ indexes' = indexes \cup {"project"}
            /\ dbTouched' = TRUE
            /\ Goto(c, "index_teammember")
    /\ UNCHANGED <<dbAvail, project, teammember, i, project_count, lastResp>>

SeedIndexTeam(c) ==
    /\ pc[c] = "index_teammember"
    /\ indexes' = indexes \cup {"teammember"}
    /\ Goto(c, "count_project")
    /\ UNCHANGED <<dbAvail, dbTouched, project, teammember, i, project_count, lastResp>>

SeedCountProjects(c) ==
    /\ pc[c] = "count_project"
    /\ project_count' = [project_count EXCEPT ![c] = Len(project)]
    /\ Goto(c, "count_teammember")
    /\ UNCHANGED <<dbAvail, dbTouched, indexes, project, teammember, i, lastResp>>

\* count_documents on "teammember", then the emptiness test
SeedCountMembers(c) ==
    /\ pc[c] = "count_teammember"
    /\ IF DataPresent(project_count[c], Len(teammember))
       THEN /\ Return(c, AlreadyPresent)
            /\ UNCHANGED i
       ELSE /\ Goto(c, "insert_teammember")
            /\ i' = [i EXCEPT ![c] = 1]
    /\ UNCHANGED <<dbAvail, dbTouched, indexes, project, teammember, project_count, lastResp>>

\* one iteration of "for m in team: create_document"
SeedInsertMember(c) ==
    /\ pc[c] = "insert_teammember"
    /\ IF UniqueViolation("teammember", teammember, team[i[c]])
       THEN /\ Return(c, InternalServerError)
            /\ UNCHANGED <<teammember, i>>
       ELSE /\ teammember' = create_document(teammember, team[i[c]])
            /\ IF i[c] < Len(team)
               THEN /\ i' = [i EXCEPT ![c] = i[c] + 1]
                    /\ Goto(c, "insert_teammember")
               ELSE /\ i' = [i EXCEPT ![c] = 1]
                    /\ Goto(c, "insert_project")
    /\ UNCHANGED <<dbAvail, dbTouched, indexes, project, project_count, lastResp>>

\* one iteration of "for p in projects: create_document"
SeedInsertProject(c) ==
    /\ pc[c] = "insert_project"
    /\ IF UniqueViolation("project", project, projects[i[c]])
       THEN /\ Return(c, InternalServerError)
            /\ UNCHANGED <<project, i>>
       ELSE /\ project' = create_document(project, projects[i[c]])
            /\ IF i[c] < Len(projects)
               THEN /\ i' = [i EXCEPT ![c] = i[c] + 1]
                    /\ Goto(c, "insert_project")
               ELSE /\ i' = [i EXCEPT ![c] = 1]
                    /\ Goto(c, "backfill")
    /\ UNCHANGED <<dbAvail, dbTouched, indexes, teammember, project_count, lastResp>>

\* one iteration of the backfill loop; the last one returns
SeedBackfill(c) ==
    /\ pc[c] = "backfill"
    /\ teammember' = update_one(teammember, team[i[c]].slug, BackfillSlugs(team[i[c]], projects))
    /\ IF i[c] < Len(team)
       THEN /\ i' = [i EXCEPT ![c] = i[c] + 1]
            /\ Goto(c, "backfill")
       ELSE /\ Return(c, SeededSampleData)
            /\ UNCHANGED i
    /\ UNCHANGED <<dbAvail, dbTouched, indexes, project, project_count, lastResp>>

-----------------------------------------------------------------------------
\* Read endpoints

\* Python truthiness of an Optional[str] query parameter: None and "" are falsy
TruthyText(o) == o # None /\ Get(o) # EmptyText
TruthyStr(o) == o # None /\ Get(o) # ""

\* filter_dict of list_projects with the description clause of "$or" left out
ProjectFilterTitleOnly(q, tech, category) ==
    [or |-> IF TruthyText(q) THEN Some(<< <<"title">>, Get(q) >>) ELSE None,
     in |-> IF TruthyStr(tech) THEN Some(<<"technologies", Get(tech)>>) ELSE None,
     eq |-> IF TruthyStr(category) THEN Some(<<"category", Get(category)>>) ELSE None]

\* filter_dict of list_projects
ProjectFilter(q, tech, category) ==
    [or |-> IF TruthyText(q) THEN Some(<< <<"title", "description">>, Get(q) >>) ELSE None,
     in |-> IF TruthyStr(tech) THEN Some(<<"technologies", Get(tech)>>) ELSE None,
     eq |-> IF TruthyStr(category) THEN Some(<<"category", Get(category)>>) ELSE None]

\* filter_dict of list_team
TeamFilter(q, skill) ==
    [or |-> IF TruthyText(q) THEN Some(<< <<"name", "bio", "role">>, Get(q) >>) ELSE None,
     in |-> IF TruthyStr(skill) THEN Some(<<"skills", Get(skill)>>) ELSE None,
     eq |-> None]

ProjectOut(d) ==
    [title |-> d.title, slug |-> d.slug, description |-> d.description,
     technologies |-> d.technologies, images |-> d.images, demo_url |-> d.demo_url,
     repo_url |-> d.repo_url, team_members |-> d.team_members, timeline |-> d.timeline,
     category |-> d.category]

TeamMemberOut(d) ==
    [name |-> d.name, slug |-> d.slug, role |-> d.role, bio |-> d.bio, skills |-> d.skills,
     projects |-> d.projects, socials |-> d.socials, email |-> d.email, photo |-> d.photo]

\* the list comprehensions that shape the documents of a listing
ProjectOutList(docs) == [k \in 1..Len(docs) |-> ProjectOut(docs[k])]

TeamMemberOutList(docs) == [k \in 1..Len(docs) |-> TeamMemberOut(docs[k])]

\* Query parameters and path slugs that clients send
QParams == {None, Some(EmptyText), Some(QDashboard), Some(QNova), Some(QAtDotAs), Some(QNoHit)}
TechParams == {None, Some(""), Some("React"), Some("Mongo")}
CategoryParams == {None, Some(""), Some("Web"), Some("We")}
TeamQParams == {None, Some(QDesigner)}
SkillParams == {None, Some("Figma"), Some("Fig")}
ProjectSlugs == {"nova-portfolio", "api-atlas", "does-not-exist"}
TeamSlugs == {"alex-johnson", "sam-patel", "does-not-exist"}

Http(ep, req, status, body) ==
    lastResp' = [ep |-> ep, req |-> req, status |-> status, body |-> body]

Unavailable(ep, req) ==
    /\ Http(ep, req, 500, [detail |-> "Database not available"])
    /\ UNCHANGED dbTouched

ReadOnly == UNCHANGED <<dbAvail, indexes, project, teammember, pc, i, project_count, resp>>

\* GET /
read_root ==
    /\ Http("read_root", <<>>, 200, [message |-> "Portfolio API running"])
    /\ UNCHANGED dbTouched
    /\ ReadOnly

\* GET /test; the two environment variables are set or not
test_database ==
    /\ \E url \in BOOLEAN, name \in BOOLEAN :
          Http("test_database", <<>>, 200,
               [backend |-> "Running",
                database |-> IF DbIsNone THEN "Not Available" ELSE "Connected & Working",
                database_url |-> IF url THEN "Set" ELSE "Not Set",
                database_name |-> IF name THEN "Set" ELSE "Not Set",
                connection_status |-> IF DbIsNone THEN "Not Connected" ELSE "Connected",
                collections |-> IF DbIsNone THEN <<>> ELSE list_collection_names])
    /\ dbTouched' = (dbTouched \/ ~DbIsNone)
    /\ ReadOnly

\* GET /api/projects
list_projects(q, tech, category) ==
    /\ LET req == [q |-> q, tech |-> tech, category |-> category]
       IN  IF DbIsNone
           THEN Unavailable("list_projects", req)
           ELSE /\ Http("list_projects", req, 200,
                        ProjectOutList(get_documents(project, ProjectFilter(q, tech, category))))
                /\ dbTouched' = TRUE
    /\ ReadOnly

\* GET /api/projects/{slug}
get_project(slug) ==
    /\ IF DbIsNone
       THEN Unavailable("get_project", [slug |-> slug])
       ELSE /\ LET doc == find_one(project, slug)
               IN  IF doc = None
                   THEN Http("get_project", [slug |-> slug], 404, [detail |-> "Project not found"])
                   ELSE Http("get_project", [slug |-> slug], 200, ProjectOut(Get(doc)))
            /\ dbTouched' = TRUE
    /\ ReadOnly

\* GET /api/team
list_team(q, skill) ==
    /\ LET req == [q |-> q, skill |-> skill]
       IN  IF DbIsNone
           THEN Unavailable("list_team", req)
           ELSE /\ Http("list_team", req, 200,
                        TeamMemberOutList(get_documents(teammember, TeamFilter(q, skill))))
                /\ dbTouched' = TRUE
    /\ ReadOnly

\* GET /api/team/{slug}
get_team_member(slug) ==
    /\ IF DbIsNone
       THEN Unavailable("get_team_member", [slug |-> slug])
       ELSE /\ LET doc == find_one(teammember, slug)
               IN  IF doc = None
                   THEN Http("get_team_member", [slug |-> slug], 404,
                             [detail |-> "Team member not found"])
                   ELSE Http("get_team_member", [slug |-> slug], 200, TeamMemberOut(Get(doc)))
            /\ dbTouched' = TRUE
    /\ ReadOnly

-----------------------------------------------------------------------------
\* The system

Init ==
    /\ dbAvail \in BOOLEAN
    /\ dbTouched = FALSE
    /\ indexes = {}
    /\ project = <<>>
    /\ teammember = <<>>
    /\ pc = [c \in SeedCalls |-> "idle"]
    /\ i = [c \in SeedCalls |-> 1]
    /\ project_count = [c \in SeedCalls |-> 0]
    /\ resp = [c \in SeedCalls |-> None]
    /\ lastResp = [ep |-> "none", req |-> <<>>, status |-> 0, body |-> <<>>]

seed_data(c) ==
    \/ SeedStart(c)
    \/ SeedIndexTeam(c)
    \/ SeedCountProjects(c)
    \/ SeedCountMembers(c)
    \/ SeedInsertMember(c)
    \/ SeedInsertProject(c)
    \/ SeedBackfill(c)

\* Seed calls overlapping each other and the read endpoints; the two listings
\* are requested without query parameters
Next ==
    \/ \E c \in SeedCalls : seed_data(c)
    \/ read_root
    \/ test_database
    \/ list_projects(None, None, None)
    \/ \E slug \in ProjectSlugs : get_project(slug)
    \/ list_team(None, None)
    \/ \E slug \in TeamSlugs : get_team_member(slug)

Spec == Init /\ [][Next]_vars

\* One seed call and the two listings under every combination of query parameters
NextQuery ==
    \/ \E c \in {CHOOSE c \in SeedCalls : TRUE} : seed_data(c)
    \/ \E q \in QParams, tech \in TechParams, category \in CategoryParams :
          list_projects(q, tech, category)
    \/ \E q \in TeamQParams, skill \in SkillParams : list_team(q, skill)

SpecQuery == Init /\ [][NextQuery]_vars

-----------------------------------------------------------------------------
\* Vocabulary of the properties

SeedReturned == \E c \in SeedCalls : resp[c] = SeededSampleData

\* seed call c has not yet finished its emptiness test
Checking(c) == pc[c] \in {"idle", "index_teammember", "count_project", "count_teammember"}

\* a step taken by seed call c
StepOf(c) == <<pc[c], i[c], resp[c]>>' # <<pc[c], i[c], resp[c]>>

\* a step taken by a read endpoint (no seed call moves)
ReadStep == UNCHANGED <<pc, i, resp>>

SlugCount(docs, slug) == Cardinality({k \in 1..Len(docs) : docs[k].slug = slug})

UniqueSlugs(docs) == \A k \in 1..Len(docs) : SlugCount(docs, docs[k].slug) = 1

\* out is document d without the store's id
SameEntity(out, d) ==
    /\ DOMAIN d = DOMAIN out \cup {"id"}
    /\ \A f \in DOMAIN out : out[f] = d[f]

\* positions of the stored projects that list the member slug
ProjectsListing(slug) == {k \in 1..Len(project) : slug \in Range(project[k].team_members)}

\* the projects field names exactly the stored projects that list the member
Consistent(m) ==
    /\ Range(m.projects) = {project[k].slug : k \in ProjectsListing(m.slug)}
    /\ Len(m.projects) = Cardinality(ProjectsListing(m.slug))

-----------------------------------------------------------------------------
\* C1: seeding is idempotent: once a seed call has returned "Seeded sample
\* data", a seed call that runs its availability check, index creation and
\* emptiness test writes no document and returns "Data already present", so
\* the collections hold what the first call left.
C1_SeedIdempotent ==
    [][\A c \in SeedCalls :
         (SeedReturned /\ Checking(c) /\ StepOf(c)) =>
            /\ project' = project
            /\ teammember' = teammember
            /\ Checking(c)' \/ resp'[c] = AlreadyPresent]_vars

C1_Witness ==
    \E c, d \in SeedCalls :
        /\ resp[c] = SeededSampleData
        /\ resp[d] = AlreadyPresent
        /\ Len(teammember) = Len(team)
        /\ Len(project) = Len(projects)

\* C2: after a seed call returned "Seeded sample data", every stored team
\* member's projects field is exactly the list of slugs of the stored projects
\* whose team_members contains the member's slug.
C2_BackfillConsistent ==
    SeedReturned => \A k \in 1..Len(teammember) : Consistent(teammember[k])

C2_Witness ==
    /\ SeedReturned
    /\ Len(teammember) = Len(team)
    /\ \E k \in 1..Len(teammember) : Len(teammember[k].projects) = Len(projects)
    /\ \E k \in 1..Len(teammember) : Len(teammember[k].projects) < Len(projects)

\* C3: a seed call that completes its emptiness test while either collection
\* holds a document writes nothing and returns "Data already present", also
\* when only one of the two collections is non-empty.
C3_NoWriteWhenPresent ==
    [][\A c \in SeedCalls :
         (/\ pc[c] = "count_teammember"
          /\ StepOf(c)
          /\ Len(project) > 0 \/ Len(teammember) > 0) =>
            /\ resp'[c] = AlreadyPresent
            /\ project' = project
            /\ teammember' = teammember
            /\ indexes' = indexes]_vars

C3_Witness ==
    \E c \in SeedCalls :
        /\ resp[c] = AlreadyPresent
        /\ Len(teammember) > 0
        /\ Len(project) = 0

DataEndpoints == {"list_projects", "get_project", "list_team", "get_team_member"}

\* C4: with no store (db is None) every data endpoint answers 500 and makes no
\* call on the store, and GET /test answers 200 with database "Not Available".
C4_UnavailableStore ==
    ~dbAvail =>
        /\ ~dbTouched
        /\ indexes = {} /\ project = <<>> /\ teammember = <<>>
        /\ \A c \in SeedCalls : resp[c] \in {None, DbNotAvailable}
        /\ \A c \in SeedCalls : pc[c] \in {"idle", "done"}
        /\ lastResp.ep \in DataEndpoints => lastResp.status = 500
        /\ lastResp.ep = "test_database" =>
              /\ lastResp.status = 200
              /\ lastResp.body.database = "Not Available"

C4_Witness ==
    /\ ~dbAvail
    /\ \A c \in SeedCalls : resp[c] = DbNotAvailable
    /\ lastResp.ep = "test_database"
    /\ lastResp.body.database = "Not Available"

C4_WitnessRead ==
    /\ ~dbAvail
    /\ lastResp.ep \in DataEndpoints
    /\ lastResp.status = 500

\* the answer of a get-by-slug step on collection docs
BySlug(docs) ==
    /\ lastResp'.status \in {200, 404}
    /\ lastResp'.status = 404 <=> SlugCount(docs, lastResp'.req.slug) = 0
    /\ lastResp'.status = 200 =>
          /\ SlugCount(docs, lastResp'.req.slug) = 1
          /\ lastResp'.body.slug = lastResp'.req.slug
          /\ \E k \in 1..Len(docs) : SameEntity(lastResp'.body, docs[k])
    /\ UNCHANGED store

\* C5: with the store available, GET /api/projects/{slug} and
\* GET /api/team/{slug} answer 404 exactly when the collection holds no
\* document with that slug, otherwise 200 with the one stored entity of that
\* slug, and leave the store as it was.
C5_GetBySlug ==
    [][(ReadStep /\ dbAvail) =>
          /\ lastResp'.ep = "get_project" => BySlug(project)
          /\ lastResp'.ep = "get_team_member" => BySlug(teammember)]_vars

C5_WitnessFound ==
    /\ lastResp.ep = "get_team_member"
    /\ lastResp.status = 200
    /\ lastResp.body.slug = "sam-patel"

C5_WitnessNotFound ==
    /\ Len(project) = Len(projects)
    /\ lastResp.ep = "get_project"
    /\ lastResp.status = 404

CharEqI(a, b) ==
    \/ a = b
    \/ \E k \in 1..Len(UpperChars) : {a, b} = {UpperChars[k], LowerChars[k]}

\* pattern pat occurs in text at some position, case-insensitively
QMatches(pat, text) ==
    \E w \in 1..(Len(text) - Len(pat) + 1) :
        \A k \in 1..Len(pat) : pat[k] = "." \/ CharEqI(pat[k], text[w + k - 1])

\* the response lists exactly the documents sel, in that order
ListedExactly(sel) ==
    /\ lastResp'.status = 200
    /\ Len(lastResp'.body) = Len(sel)
    /\ \A k \in 1..Len(sel) : SameEntity(lastResp'.body[k], sel[k])

ListProjectsStep == ReadStep /\ dbAvail /\ lastResp'.ep = "list_projects"

\* C6 as stated: GET /api/projects returns exactly the stored projects that
\* satisfy every parameter that is present (q matches title or description,
\* tech is an element of technologies, category equals the category).
C6_AsStated ==
    [][ListProjectsStep =>
          LET r == lastResp'.req
          IN  ListedExactly(SelectSeq(project, LAMBDA d :
                /\ r.q = None \/ QMatches(Get(r.q), d.title)
                              \/ QMatches(Get(r.q), d.description)
                /\ r.tech = None \/ Get(r.tech) \in Range(d.technologies)
                /\ r.category = None \/ d.category = r.category))]_vars

\* C6 amended: GET /api/projects returns exactly the stored projects that
\* satisfy every parameter that is present and not the empty string.
C6_ListProjects ==
    [][ListProjectsStep =>
          LET r == lastResp'.req
          IN  ListedExactly(SelectSeq(project, LAMBDA d :
                /\ r.q \in {None, Some(EmptyText)} \/ QMatches(Get(r.q), d.title)
                                                  \/ QMatches(Get(r.q), d.description)
                /\ r.tech \in {None, Some("")} \/ Get(r.tech) \in Range(d.technologies)
                /\ r.category \in {None, Some("")} \/ d.category = r.category))]_vars

C6_Witness ==
    /\ lastResp.ep = "list_projects"
    /\ lastResp.status = 200
    /\ lastResp.req.q = Some(QNova)
    /\ lastResp.req.category = Some("Web")
    /\ lastResp.req.tech = Some("React")
    /\ Len(lastResp.body) = 1
    /\ Len(project) = Len(projects)

SlugsKept(docs, docsNext) ==
    \A k \in 1..Len(docs) : Len(docsNext) >= k /\ docsNext[k].slug = docs[k].slug

\* C7: no two documents of a collection share a slug, and the slug of a
\* stored document never changes.
C7_SlugUniqueImmutable ==
    /\ [](UniqueSlugs(project) /\ UniqueSlugs(teammember))
    /\ [][SlugsKept(project, project') /\ SlugsKept(teammember, teammember')]_vars

C7_Witness ==
    /\ Len(teammember) = Len(team)
    /\ Len(project) = Len(projects)
    /\ \A c \in SeedCalls : pc[c] = "done" /\ resp[c] # AlreadyPresent

\* the projects field of each sample member once it is backfilled
SeededProjectsOf ==
    << <<"nova-portfolio", "api-atlas">>, <<"nova-portfolio">>, <<"api-atlas">> >>

\* C8 as stated: a seed call applies all of its writes or none, so a listing
\* of the team shows no member or all of them with their projects filled in.
C8_AllOrNothing ==
    (lastResp.ep = "list_team" /\ lastResp.status = 200) =>
        \/ lastResp.body = <<>>
        \/ /\ Len(lastResp.body) = Len(team)
           /\ \A k \in 1..Len(team) : lastResp.body[k].projects = SeededProjectsOf[k]

Filled(k) == teammember[k].projects # <<>>

\* C8 amended: the writes of a seed call are applied one store call at a time,
\* in the order member inserts, project inserts, backfill updates; the store
\* always holds a prefix of that sequence of writes.
C8_WritesInOrder ==
    /\ Len(teammember) <= Len(team)
    /\ Len(project) <= Len(projects)
    /\ \A k \in 1..Len(teammember) :
          /\ SameEntity([team[k] EXCEPT !.projects = teammember[k].projects], teammember[k])
          /\ teammember[k].projects \in {<<>>, SeededProjectsOf[k]}
          /\ Filled(k) => /\ Len(project) = Len(projects)
                          /\ \A j \in 1..(k - 1) : Filled(j)
    /\ \A k \in 1..Len(project) : SameEntity(projects[k], project[k])
    /\ Len(project) > 0 => Len(teammember) = Len(team)

C8_Witness ==
    /\ lastResp.ep = "list_team"
    /\ lastResp.status = 200
    /\ Len(lastResp.body) > 0
    /\ Len(lastResp.body) < Len(team)
    /\ Len(teammember) = Len(team)
    /\ Filled(1) /\ ~Filled(Len(team))

PassedCheck(c) == resp[c] \in {SeededSampleData, InternalServerError}

\* C9 as stated: two seed calls that both found the collections empty both
\* insert, so the sample data is stored twice.
C9_DoubleInsert ==
    \A c, d \in SeedCalls :
        (c # d /\ PassedCheck(c) /\ PassedCheck(d)) =>
            /\ Len(teammember) > Len(team)
            /\ Len(project) > Len(projects)

HasWritten(c) ==
    \/ pc[c] = "insert_teammember" /\ i[c] > 1
    \/ pc[c] \in {"insert_project", "backfill"}
    \/ resp[c] = SeededSampleData

\* C9 amended: two seed calls can both find the collections empty and both
\* reach the insert loop, but the unique slug index rejects the insert of the
\* later one: at most one call writes, the other fails, nothing is stored twice.
C9_NoDoubleInsert ==
    /\ Cardinality({c \in SeedCalls : HasWritten(c)}) <= 1
    /\ Len(teammember) <= Len(team)
    /\ Len(project) <= Len(projects)
    /\ \A c \in SeedCalls : resp[c] = InternalServerError => ~HasWritten(c)

C9_Witness ==
    \E c, d \in SeedCalls :
        /\ pc[c] = "insert_teammember" /\ i[c] = 1
        /\ pc[d] = "insert_teammember" /\ i[d] > 1

C9_WitnessRejected ==
    \E c, d \in SeedCalls :
        /\ resp[c] = InternalServerError
        /\ resp[d] = SeededSampleData

\* C10: once a seed call has returned "Seeded sample data" the store holds 3
\* team members and 2 projects, and no later step of any request changes a
\* document.
C10_FrozenAfterSeed ==
    /\ [](SeedReturned => Len(teammember) = 3 /\ Len(project) = 2)
    /\ [][SeedReturned => project' = project /\ teammember' = teammember]_vars

C10_Witness ==
    /\ SeedReturned
    /\ \E c \in SeedCalls : resp[c] = AlreadyPresent
    /\ lastResp.ep = "get_project"
    /\ lastResp.status = 200

====
